---------------------------- MODULE Spec2Model ----------------------------
(***************************************************************************)
(* A model of smpp-server.py: the PDU codec (SMPPPDU.encode, parse_pdu)    *)
(* and the per-connection protocol object SMPPServerProtocol, driven by    *)
(* the asyncio callbacks connection_made, data_received, connection_lost.  *)
(*                                                                         *)
(* Bytes are the numbers 0..255 and a byte string is a sequence of them.   *)
(* A Python int that travels in a 32-bit field is kept as its two 16-bit   *)
(* halves [hi, lo] (value = hi * 65536 + lo): the ids with the high bit    *)
(* set (0x80000000 and up) do not fit the model checker's integers.        *)
(***************************************************************************)
EXTENDS Integers, Sequences, FiniteSets, TLC

\* ------------------------------------------------------------------ bounds

\* Request sequence numbers 1..MaxSeq are delivered (and 0xFFFFFFFF).
MaxSeq == 1

\* Request bodies are the prefixes of SampleBody of length 0..MaxBody.
MaxBody == 1

\* The codec specification draws bodies of length 0..MaxCodecBody.
MaxCodecBody == 2

\* The accepted submit_sm of a session are counted up to MaxSubmits.
MaxSubmits == 2

\* SpecOrder records the first MaxLog dispatched requests of a connection.
MaxLog == 3

\* ------------------------------------------------------- 32-bit quantities

U32(hi, lo) == [hi |-> hi, lo |-> lo]

\* A small Python int (a length, a literal status) as a 32-bit quantity.
FromNat(n) == U32(n \div 65536, n % 65536)

Min(a, b) == IF a <= b THEN a ELSE b

\* min(v, n) for a 32-bit quantity v and a small n: the end of a slice [..:v]
\* of a byte string of length n.
ClampTo(v, n) == IF v.hi > 0 THEN n ELSE Min(v.lo, n)

\* Mutant of pack: '<I', least significant byte first.
pack_little_endian(v) ==
    << v.lo % 256, v.lo \div 256, v.hi % 256, v.hi \div 256 >>

\* struct.pack('!I', v): four bytes, most significant first.

pack(v) == << v.hi \div 256, v.hi % 256, v.lo \div 256, v.lo % 256 >>

\* struct.unpack('!I', b) of the four bytes b[i..i+3] (1-based i).
unpack(b, i) == U32(b[i] * 256 + b[i + 1], b[i + 2] * 256 + b[i + 3])

\* ------------------------------------------------------------ the registry

SMPP_COMMANDS ==
    [ bind_receiver         |-> U32(0, 1),
      bind_transmitter      |-> U32(0, 2),
      bind_transceiver      |-> U32(0, 9),
      submit_sm             |-> U32(0, 4),
      deliver_sm            |-> U32(0, 5),
      unbind                |-> U32(0, 6),
      generic_nack          |-> U32(32768, 0),
      bind_receiver_resp    |-> U32(32768, 1),
      bind_transmitter_resp |-> U32(32768, 2),
      bind_transceiver_resp |-> U32(32768, 9),
      submit_sm_resp        |-> U32(32768, 4),
      deliver_sm_resp       |-> U32(32768, 5),
      unbind_resp           |-> U32(32768, 6) ]

ESME_ROK        == FromNat(0)
ESME_RINVCMDID  == FromNat(3)
ESME_RINVBNDSTS == FromNat(11)
ESME_RBINDFAIL  == FromNat(13)

\* --------------------------------------------------------------- the codec

\* SMPPPDU.__init__
SMPPPDU(command_id, command_status, sequence_number, body) ==
    [ command_id      |-> command_id,
      command_status  |-> command_status,
      sequence_number |-> sequence_number,
      body            |-> body ]

\* SMPPPDU.encode: the 16-byte header, then the body.
encode(pdu) ==
    pack(FromNat(16 + Len(pdu.body))) \o pack(pdu.command_id)
        \o pack(pdu.command_status) \o pack(pdu.sequence_number) \o pdu.body

\* parse_pdu raises ValueError("PDU too short") on these data.
parse_raises(data) == Len(data) < 16

\* parse_pdu on data it accepts: body = data[16:length].
parse_pdu(data) ==
    LET length == unpack(data, 1)
    IN  SMPPPDU(unpack(data, 5), unpack(data, 9), unpack(data, 13),
                SubSeq(data, 17, ClampTo(length, Len(data))))

\* ------------------------------------------------------------ the handlers

\* What one data_received call does to the protocol object and its
\* transport: the new bound flag, the byte strings passed to
\* transport.write in order, and whether transport.close was called.
Effect(bound_, out, close) == [bound |-> bound_, out |-> out, close |-> close]

\* authenticate: "Accept all for this example".
authenticate(pdu) == TRUE

\* The credential check as handle_bind sees it.  "stub" is the source's
\* authenticate; "reject" stands for a check that refuses the bind, which the
\* stub never does (used by SpecAuth only).
Accepted(pdu, auth) == IF auth = "stub" THEN authenticate(pdu) ELSE FALSE

\* Mutant of resp_command_id: the transmitter's entry holds the receiver's
\* response id.
resp_command_id_swapped(command_id) ==
    CASE command_id = SMPP_COMMANDS.bind_receiver ->
             SMPP_COMMANDS.bind_receiver_resp
      [] command_id = SMPP_COMMANDS.bind_transmitter ->
             SMPP_COMMANDS.bind_receiver_resp
      [] command_id = SMPP_COMMANDS.bind_transceiver ->
             SMPP_COMMANDS.bind_transceiver_resp

\* The dict lookup of handle_bind: the response id of a bind command.
resp_command_id(command_id) ==
    CASE command_id = SMPP_COMMANDS.bind_receiver ->
             SMPP_COMMANDS.bind_receiver_resp
      [] command_id = SMPP_COMMANDS.bind_transmitter ->
             SMPP_COMMANDS.bind_transmitter_resp
      [] command_id = SMPP_COMMANDS.bind_transceiver ->
             SMPP_COMMANDS.bind_transceiver_resp

\* b'smppserver\x00'
ServerSystemId == << 115, 109, 112, 112, 115, 101, 114, 118, 101, 114, 0 >>

\* b'message_id_123\x00'
MessageId ==
    << 109, 101, 115, 115, 97, 103, 101, 95, 105, 100, 95, 49, 50, 51, 0 >>

\* Mutant of send_generic_nack: the object's own sequence_number, not the
\* request's.
send_generic_nack_own_sequence(s, pdu, status) ==
    Effect(s.bound,
           << encode(SMPPPDU(SMPP_COMMANDS.generic_nack, status,
                             FromNat(s.sequence_number), << >>)) >>,
           FALSE)

send_generic_nack(s, pdu, status) ==
    Effect(s.bound,
           << encode(SMPPPDU(SMPP_COMMANDS.generic_nack, status,
                             pdu.sequence_number, << >>)) >>,
           FALSE)

\* Mutant of handle_bind: self.bound is set before the credential check.
handle_bind_bound_first(s, pdu, is_transceiver, auth) ==
    IF Accepted(pdu, auth)
    THEN Effect(TRUE,
                << encode(SMPPPDU(resp_command_id(pdu.command_id), ESME_ROK,
                                  pdu.sequence_number, ServerSystemId)) >>,
                FALSE)
    ELSE Effect(TRUE,
                << encode(SMPPPDU(SMPP_COMMANDS.generic_nack, ESME_RBINDFAIL,
                                  pdu.sequence_number, << >>)) >>,
                FALSE)

handle_bind(s, pdu, is_transceiver, auth) ==
    IF Accepted(pdu, auth)
    THEN Effect(TRUE,
                << encode(SMPPPDU(resp_command_id(pdu.command_id), ESME_ROK,
                                  pdu.sequence_number, ServerSystemId)) >>,
                FALSE)
    ELSE Effect(s.bound,
                << encode(SMPPPDU(SMPP_COMMANDS.generic_nack, ESME_RBINDFAIL,
                                  pdu.sequence_number, << >>)) >>,
                FALSE)

\* Mutant of handle_submit_sm: no check of self.bound.
handle_submit_sm_unchecked(s, pdu) ==
    Effect(s.bound,
           << encode(SMPPPDU(SMPP_COMMANDS.submit_sm_resp, ESME_ROK,
                             pdu.sequence_number, MessageId)) >>,
           FALSE)

\* Mutant of handle_submit_sm: the transport is closed after the response.
handle_submit_sm_closing(s, pdu) ==
    IF ~s.bound
    THEN send_generic_nack(s, pdu, ESME_RINVBNDSTS)
    ELSE Effect(s.bound,
                << encode(SMPPPDU(SMPP_COMMANDS.submit_sm_resp, ESME_ROK,
                                  pdu.sequence_number, MessageId)) >>,
                TRUE)

\* Mutant of handle_submit_sm: the response is built and never written.
handle_submit_sm_silent(s, pdu) ==
    IF ~s.bound
    THEN send_generic_nack(s, pdu, ESME_RINVBNDSTS)
    ELSE Effect(s.bound, << >>, FALSE)

handle_submit_sm(s, pdu) ==
    IF ~s.bound
    THEN send_generic_nack(s, pdu, ESME_RINVBNDSTS)
    ELSE Effect(s.bound,
                << encode(SMPPPDU(SMPP_COMMANDS.submit_sm_resp, ESME_ROK,
                                  pdu.sequence_number, MessageId)) >>,
                FALSE)

\* Mutant of handle_unbind: an unbind on an unbound session is refused.
handle_unbind_checked(s, pdu) ==
    IF ~s.bound
    THEN send_generic_nack(s, pdu, ESME_RINVBNDSTS)
    ELSE Effect(FALSE,
                << encode(SMPPPDU(SMPP_COMMANDS.unbind_resp, ESME_ROK,
                                  pdu.sequence_number, << >>)) >>,
                TRUE)

\* Mutant of handle_unbind: the transport is left open.
handle_unbind_left_open(s, pdu) ==
    Effect(FALSE,
           << encode(SMPPPDU(SMPP_COMMANDS.unbind_resp, ESME_ROK,
                             pdu.sequence_number, << >>)) >>,
           FALSE)

handle_unbind(s, pdu) ==
    Effect(FALSE,
           << encode(SMPPPDU(SMPP_COMMANDS.unbind_resp, ESME_ROK,
                             pdu.sequence_number, << >>)) >>,
           TRUE)

\* Mutant of dispatch: deliver_sm is routed to handle_submit_sm.
dispatch_deliver_as_submit(s, pdu, auth) ==
    IF pdu.command_id = SMPP_COMMANDS.bind_receiver
    THEN handle_bind(s, pdu, FALSE, auth)
    ELSE IF pdu.command_id = SMPP_COMMANDS.bind_transmitter
    THEN handle_bind(s, pdu, FALSE, auth)
    ELSE IF pdu.command_id = SMPP_COMMANDS.bind_transceiver
    THEN handle_bind(s, pdu, TRUE, auth)
    ELSE IF pdu.command_id \in {SMPP_COMMANDS.submit_sm, SMPP_COMMANDS.deliver_sm}
    THEN handle_submit_sm(s, pdu)
    ELSE IF pdu.command_id = SMPP_COMMANDS.unbind
    THEN handle_unbind(s, pdu)
    ELSE send_generic_nack(s, pdu, ESME_RINVCMDID)

\* The if/elif chain of data_received on a parsed PDU.
dispatch(s, pdu, auth) ==
    IF pdu.command_id = SMPP_COMMANDS.bind_receiver
    THEN handle_bind(s, pdu, FALSE, auth)
    ELSE IF pdu.command_id = SMPP_COMMANDS.bind_transmitter
    THEN handle_bind(s, pdu, FALSE, auth)
    ELSE IF pdu.command_id = SMPP_COMMANDS.bind_transceiver
    THEN handle_bind(s, pdu, TRUE, auth)
    ELSE IF pdu.command_id = SMPP_COMMANDS.submit_sm
    THEN handle_submit_sm(s, pdu)
    ELSE IF pdu.command_id = SMPP_COMMANDS.unbind
    THEN handle_unbind(s, pdu)
    ELSE send_generic_nack(s, pdu, ESME_RINVCMDID)

\* Mutant of data_received: the except branch also clears self.bound.
data_received_reset_on_error(s, data, auth) ==
    IF parse_raises(data)
    THEN Effect(FALSE, << >>, TRUE)
    ELSE dispatch(s, parse_pdu(data), auth)

\* Mutant of data_received: the except branch logs and leaves the transport
\* open.
data_received_swallow(s, data, auth) ==
    IF parse_raises(data)
    THEN Effect(s.bound, << >>, FALSE)
    ELSE dispatch(s, parse_pdu(data), auth)

\* data_received: parse, dispatch; any exception closes the transport.
data_received(s, data, auth) ==
    IF parse_raises(data)
    THEN Effect(s.bound, << >>, TRUE)
    ELSE dispatch(s, parse_pdu(data), auth)

\* ------------------------------------------------------------- the inputs

\* Two protocol objects: create_server makes one per accepted connection.
Conns == {1, 2}

\* Spec, SpecAuth and SpecCodec follow the first connection alone, with the
\* full set of deliveries; SpecIso interleaves both, with IsoDeliveries.
Served == {1}

\* b'u\x00p\x00': a bind body's first fields, cut to the body bound.
SampleBody == << 117, 0, 112, 0 >>

ReqBodies == { SubSeq(SampleBody, 1, n) : n \in 0..Min(MaxBody, Len(SampleBody)) }

SeqNums == { FromNat(n) : n \in 1..MaxSeq } \cup { U32(65535, 65535) }

\* The five handled requests, deliver_sm (registered, not handled) and
\* enquire_link 0x15 (not registered).
ReqCommands ==
    { SMPP_COMMANDS.bind_receiver, SMPP_COMMANDS.bind_transmitter,
      SMPP_COMMANDS.bind_transceiver, SMPP_COMMANDS.submit_sm,
      SMPP_COMMANDS.unbind, SMPP_COMMANDS.deliver_sm, U32(0, 21) }

Requests ==
    { SMPPPDU(c, ESME_ROK, n, b) : c \in ReqCommands, n \in SeqNums, b \in ReqBodies }

WellFormed == { encode(p) : p \in Requests }

\* The frames whose fields other than the command and the body are fixed.
PlainFrames ==
    { encode(SMPPPDU(c, ESME_ROK, FromNat(1), b)) : c \in ReqCommands, b \in ReqBodies }

\* Fewer than 16 bytes: one byte, and the bodiless frames cut after 15 bytes.
\* (The event loop never calls data_received with no bytes.)
Truncated ==
    { << 0 >> } \cup
    { SubSeq(encode(SMPPPDU(c, ESME_ROK, FromNat(1), << >>)), 1, 15) : c \in ReqCommands }

\* A frame with its command_length field overwritten.
WithLength(data, v) == pack(v) \o SubSeq(data, 5, Len(data))

\* Declared lengths below the header size.
ShortLengths == {0, 15}

\* Frames that declare a short length: whole ones, and ones cut to 15 bytes.
BadLength ==
    { WithLength(d, FromNat(n)) : d \in PlainFrames \cup (Truncated \ { << 0 >> }),
                                  n \in ShortLengths }

\* Frames with a body, delivered without their last byte: 16 bytes or more,
\* fewer than the command_length they declare.
Partial ==
    { SubSeq(d, 1, Len(d) - 1) : d \in { f \in PlainFrames : Len(f) > 16 } }

\* Two whole frames in one delivery, with different sequence numbers.
PairCommands == { SMPP_COMMANDS.bind_transmitter, SMPP_COMMANDS.submit_sm }

Pairs ==
    { encode(SMPPPDU(c1, ESME_ROK, FromNat(1), << >>))
        \o encode(SMPPPDU(c2, ESME_ROK, U32(65535, 65535), << >>)) :
        c1 \in PairCommands, c2 \in PairCommands }

Deliveries == WellFormed \cup Truncated \cup BadLength \cup Partial \cup Pairs

\* The deliveries of SpecOrder: three handled commands with every sequence
\* number, and one delivery of two frames.
OrderDeliveries ==
    { encode(SMPPPDU(c, ESME_ROK, n, << >>)) :
        c \in PairCommands \cup { SMPP_COMMANDS.unbind }, n \in SeqNums }
        \cup { encode(SMPPPDU(SMPP_COMMANDS.submit_sm, ESME_ROK, FromNat(1), << >>))
                 \o encode(SMPPPDU(SMPP_COMMANDS.submit_sm, ESME_ROK,
                                    U32(65535, 65535), << >>)) }

\* The deliveries of SpecIso: every command, one sequence number, no body,
\* and one delivery that is too short.
IsoDeliveries ==
    { encode(SMPPPDU(c, ESME_ROK, FromNat(1), << >>)) : c \in ReqCommands }
        \cup { << 0 >> }

\* The PDUs of SpecCodec: 32-bit fields whose four bytes differ, the extremes,
\* and every body over {0x00, 0x41, 0xFF} up to the codec's body bound.
Words ==
    { U32(0, 0), U32(0, 1), U32(32768, 4), U32(258, 772), U32(65535, 65535) }

BodyBytes == {0, 65, 255}

CodecBodies ==
    UNION { [1..n -> BodyBytes] : n \in 0..MaxCodecBody }

ValidPDUs ==
    { SMPPPDU(c, st, n, b) : c \in Words, st \in Words, n \in Words, b \in CodecBodies }

\* --------------------------------------------------------------- the state

VARIABLES
    transport,        \* self.transport: "none" (None), "open", "closed"
    lost,             \* connection_lost has been called
    bound,            \* self.bound
    system_id,        \* self.system_id
    sequence_number,  \* self.sequence_number
    req,              \* history: the data of the last data_received call
    wire,             \* history: what that call passed to transport.write
    boundBefore,      \* history: self.bound when that call began
    last,             \* history: the last callback: "none", "made", "lost",
                      \*   or how data_received ended: "raised", "dispatched"
    verdict,          \* history: the credential check of that call
    lastBind,         \* history: command id of the last accepted bind
    rejected,         \* history: a bind was refused while unbound
    rebound,          \* history: a bind was accepted after an accepted bind
    submits,          \* history: submit_sm accepted since the last accepted
                      \*   bind, counted up to MaxSubmits
    asked,            \* SpecOrder: the data of the dispatched calls, in order
    written,          \* SpecOrder: the byte strings written, in order
    codec             \* SpecCodec: a PDU, its encoding, the encoding parsed

vars == << transport, lost, bound, system_id, sequence_number,
           req, wire, boundBefore, last, verdict, lastBind, rejected,
           rebound, submits, asked, written, codec >>

NoBind == U32(0, 0)

NoPDU == SMPPPDU(U32(0, 0), U32(0, 0), U32(0, 0), << >>)

\* SMPPServerProtocol.__init__, one object per connection.
InitConns ==
    /\ transport = [c \in Conns |-> "none"]
    /\ lost = [c \in Conns |-> FALSE]
    /\ bound = [c \in Conns |-> FALSE]
    /\ system_id = [c \in Conns |-> "None"]
    /\ sequence_number = [c \in Conns |-> 1]
    /\ req = [c \in Conns |-> << >>]
    /\ wire = [c \in Conns |-> << >>]
    /\ boundBefore = [c \in Conns |-> FALSE]
    /\ last = [c \in Conns |-> "none"]
    /\ verdict = [c \in Conns |-> "stub"]
    /\ lastBind = [c \in Conns |-> NoBind]
    /\ rejected = [c \in Conns |-> FALSE]
    /\ rebound = [c \in Conns |-> FALSE]
    /\ asked = [c \in Conns |-> << >>]
    /\ written = [c \in Conns |-> << >>]
    /\ submits = [c \in Conns |-> 0]

Init ==
    /\ InitConns
    /\ codec = [pc |-> "idle", pdu |-> NoPDU, bytes |-> << >>, back |-> NoPDU]

\* The fields of the protocol object the handlers read.
Session(c) ==
    [ bound |-> bound[c], system_id |-> system_id[c],
      sequence_number |-> sequence_number[c] ]

IsBind(command_id) ==
    command_id \in { SMPP_COMMANDS.bind_receiver, SMPP_COMMANDS.bind_transmitter,
                     SMPP_COMMANDS.bind_transceiver }

\* A delivery that reaches handle_bind.
IsBindData(data) == ~parse_raises(data) /\ IsBind(parse_pdu(data).command_id)

\* A delivery that handle_submit_sm answers with submit_sm_resp.
IsAcceptedSubmit(c, data) ==
    /\ ~parse_raises(data)
    /\ parse_pdu(data).command_id = SMPP_COMMANDS.submit_sm
    /\ bound[c]

\* connection_made: the event loop calls it once, first.
ConnectionMade(c) ==
    /\ transport[c] = "none"
    /\ transport' = [transport EXCEPT ![c] = "open"]
    /\ last' = [last EXCEPT ![c] = "made"]
    /\ UNCHANGED << lost, bound, system_id, sequence_number, req, wire,
                    boundBefore, verdict, lastBind, rejected, rebound, submits,
                    asked, written, codec >>

\* Whether the event loop still calls data_received: it delivers data only
\* while the transport is open (transport.close() stops the reading).
Reading(c) == transport[c] = "open" /\ ~lost[c]

\* Mutant of Receive: bound is one flag shared by every protocol object (a
\* class attribute), not a field of each.
Receive_shared_bound(c, data, auth) ==
    LET e == data_received(Session(c), data, auth)
    IN  /\ Reading(c)
        /\ bound' = [k \in Conns |-> e.bound]
        /\ transport' = [transport EXCEPT ![c] = IF e.close THEN "closed" ELSE @]
        /\ req' = [req EXCEPT ![c] = data]
        /\ wire' = [wire EXCEPT ![c] = e.out]
        /\ boundBefore' = [boundBefore EXCEPT ![c] = bound[c]]
        /\ last' = [last EXCEPT ![c] =
                       IF parse_raises(data) THEN "raised" ELSE "dispatched"]
        /\ UNCHANGED << lost, system_id, sequence_number, verdict, lastBind,
                        rejected, rebound, submits, codec >>

\* One data_received call.
Receive(c, data, auth) ==
    LET e == data_received(Session(c), data, auth)
        accepted == IsBindData(data) /\ Accepted(parse_pdu(data), auth)
    IN  /\ Reading(c)
        /\ bound' = [bound EXCEPT ![c] = e.bound]
        /\ transport' = [transport EXCEPT ![c] = IF e.close THEN "closed" ELSE @]
        /\ req' = [req EXCEPT ![c] = data]
        /\ wire' = [wire EXCEPT ![c] = e.out]
        /\ boundBefore' = [boundBefore EXCEPT ![c] = bound[c]]
        /\ last' = [last EXCEPT ![c] =
                       IF parse_raises(data) THEN "raised" ELSE "dispatched"]
        /\ verdict' = [verdict EXCEPT ![c] = auth]
        /\ lastBind' = [lastBind EXCEPT ![c] =
                           IF accepted THEN parse_pdu(data).command_id ELSE @]
        /\ rejected' = [rejected EXCEPT ![c] =
                           IF IsBindData(data) /\ ~accepted /\ ~bound[c]
                           THEN TRUE ELSE @]
        /\ rebound' = [rebound EXCEPT ![c] =
                          IF accepted /\ lastBind[c] # NoBind THEN TRUE ELSE @]
        /\ submits' = [submits EXCEPT ![c] =
                          IF accepted
                          THEN 0
                          ELSE IF IsAcceptedSubmit(c, data)
                          THEN Min(@ + 1, MaxSubmits) ELSE @]
        /\ UNCHANGED << lost, system_id, sequence_number, codec >>

DataReceived(c) ==
    /\ \E data \in Deliveries : Receive(c, data, "stub")
    /\ UNCHANGED << asked, written >>

\* connection_lost: the peer went away, or the close completed.
ConnectionLost(c) ==
    /\ transport[c] # "none"
    /\ ~lost[c]
    /\ lost' = [lost EXCEPT ![c] = TRUE]
    /\ transport' = [transport EXCEPT ![c] = "closed"]
    /\ last' = [last EXCEPT ![c] = "lost"]
    /\ UNCHANGED << bound, system_id, sequence_number, req, wire,
                    boundBefore, verdict, lastBind, rejected, rebound, submits,
                    asked, written, codec >>

Next ==
    \E c \in Served :
        \/ ConnectionMade(c)
        \/ DataReceived(c)
        \/ ConnectionLost(c)

Spec == Init /\ [][Next]_vars

\* --------------------------------------- a credential check that may refuse

\* The check is consulted by handle_bind alone: only a bind can be refused.
DataReceivedAuth(c) ==
    \E data \in Deliveries :
        \E auth \in IF IsBindData(data) THEN {"stub", "reject"} ELSE {"stub"} :
            /\ Receive(c, data, auth)
            /\ UNCHANGED << asked, written >>

NextAuth ==
    \E c \in Served :
        \/ ConnectionMade(c)
        \/ DataReceivedAuth(c)
        \/ ConnectionLost(c)

SpecAuth == Init /\ [][NextAuth]_vars

\* ------------------------------------------------- two connections at once

DataReceivedIso(c) ==
    /\ \E data \in IsoDeliveries : Receive(c, data, "stub")
    /\ UNCHANGED << asked, written >>

NextIso ==
    \E c \in Conns :
        \/ ConnectionMade(c)
        \/ DataReceivedIso(c)
        \/ ConnectionLost(c)

SpecIso == Init /\ [][NextIso]_vars

\* ------------------------------------- the order of requests and responses

\* data_received with a record of the stream: the dispatched data in the
\* order of the calls, and every transport.write in the order it was made.
DataReceivedLogged(c) ==
    \E data \in OrderDeliveries :
        /\ Len(asked[c]) < MaxLog
        /\ Receive(c, data, "stub")
        /\ asked' = [asked EXCEPT ![c] =
                        IF parse_raises(data) THEN @ ELSE Append(@, data)]
        /\ written' = [written EXCEPT ![c] =
                          @ \o data_received(Session(c), data, "stub").out]

NextOrder ==
    \E c \in Served :
        \/ ConnectionMade(c)
        \/ DataReceivedLogged(c)
        \/ ConnectionLost(c)

SpecOrder == Init /\ [][NextOrder]_vars

\* ------------------------------------------------------ the codec by itself

InitCodec ==
    /\ InitConns
    /\ \E p \in ValidPDUs :
           codec = [pc |-> "start", pdu |-> p, bytes |-> << >>, back |-> NoPDU]

Encode ==
    /\ codec.pc = "start"
    /\ codec' = [codec EXCEPT !.pc = "encoded", !.bytes = encode(codec.pdu)]
    /\ UNCHANGED << transport, lost, bound, system_id, sequence_number, req,
                    wire, boundBefore, last, verdict, lastBind, rejected,
                    rebound, submits, asked, written >>

Decode ==
    /\ codec.pc = "encoded"
    /\ codec' = IF parse_raises(codec.bytes)
                THEN [codec EXCEPT !.pc = "raised"]
                ELSE [codec EXCEPT !.pc = "decoded",
                                   !.back = parse_pdu(codec.bytes)]
    /\ UNCHANGED << transport, lost, bound, system_id, sequence_number, req,
                    wire, boundBefore, last, verdict, lastBind, rejected,
                    rebound, submits, asked, written >>

NextCodec == Encode \/ Decode

SpecCodec == InitCodec /\ [][NextCodec]_vars

\* ------------------------------------------------------------- the claims
\* The claims read the wire: the bytes delivered to data_received and the
\* bytes passed to transport.write, by the layout of the SMPP header.

Dispatched(c) == last[c] = "dispatched"

ReqLength(c) == unpack(req[c], 1)
ReqCommand(c) == unpack(req[c], 5)
ReqSequence(c) == unpack(req[c], 13)

\* A call that wrote exactly one frame of 16 bytes or more whose
\* command_length is its size.
OneFrame(c) ==
    /\ Len(wire[c]) = 1
    /\ Len(wire[c][1]) >= 16
    /\ unpack(wire[c][1], 1) = FromNat(Len(wire[c][1]))

RespCommand(c) == unpack(wire[c][1], 5)
RespStatus(c) == unpack(wire[c][1], 9)
RespSequence(c) == unpack(wire[c][1], 13)
RespBody(c) == SubSeq(wire[c][1], 17, Len(wire[c][1]))

NullTerminated(b) ==
    /\ Len(b) >= 1
    /\ b[Len(b)] = 0
    /\ \A i \in 1..(Len(b) - 1) : b[i] # 0

BindIds == { U32(0, 1), U32(0, 2), U32(0, 9) }

HandledIds == BindIds \cup { U32(0, 4), U32(0, 6) }

\* C1: whenever data_received dispatched a request, on any path and after
\* any earlier requests, it wrote one response whose sequence_number bytes
\* are the request's.
SequenceNumberEchoed ==
    \A c \in Conns :
        Dispatched(c) =>
            /\ OneFrame(c)
            /\ SubSeq(wire[c][1], 13, 16) = SubSeq(req[c], 13, 16)

\* C1 witness: a submit_sm with sequence number 0xFFFFFFFF answered on a
\* session bound by an earlier request.
SequenceNumberEchoedWitness ==
    \E c \in Conns :
        /\ Dispatched(c)
        /\ boundBefore[c]
        /\ ReqCommand(c) = U32(0, 4)
        /\ ReqSequence(c) = U32(65535, 65535)
        /\ RespSequence(c) = U32(65535, 65535)

\* C2: a submit_sm on a connection where no bind has succeeded is answered
\* with generic_nack, status 0x0B, and leaves the session unbound and the
\* transport open.
SubmitBeforeBindRejected ==
    \A c \in Conns :
        (Dispatched(c) /\ ReqCommand(c) = U32(0, 4) /\ lastBind[c] = NoBind) =>
            /\ OneFrame(c)
            /\ RespCommand(c) = U32(32768, 0)
            /\ RespStatus(c) = U32(0, 11)
            /\ ~bound[c]
            /\ bound[c] = boundBefore[c]
            /\ transport[c] = "open"

\* C2 witness: such a submit_sm has been answered.
SubmitBeforeBindRejectedWitness ==
    \E c \in Conns :
        /\ Dispatched(c)
        /\ ReqCommand(c) = U32(0, 4)
        /\ lastBind[c] = NoBind
        /\ RespStatus(c) = U32(0, 11)

UnbindAnswered(c) ==
    (Dispatched(c) /\ ReqCommand(c) = U32(0, 6) /\ boundBefore[c]) =>
        /\ OneFrame(c)
        /\ RespCommand(c) = U32(32768, 6)
        /\ RespStatus(c) = U32(0, 0)
        /\ transport[c] = "closed"

\* C3: an unbind on a bound session is answered with unbind_resp, status 0,
\* and the transport is closed; once a transport is closed, no step changes
\* the session's bound flag, writes to the transport or reopens it.
UnbindClosesForGood ==
    /\ [](\A c \in Conns : UnbindAnswered(c))
    /\ [][\A c \in Conns :
            transport[c] = "closed" =>
                /\ transport'[c] = "closed"
                /\ bound'[c] = bound[c]
                /\ wire'[c] = wire[c]
                /\ req'[c] = req[c]]_vars

\* C3 witness: an unbind answered on a bound session, the transport closed.
UnbindClosesForGoodWitness ==
    \E c \in Conns :
        /\ Dispatched(c)
        /\ ReqCommand(c) = U32(0, 6)
        /\ boundBefore[c]
        /\ RespCommand(c) = U32(32768, 6)
        /\ transport[c] = "closed"

\* The data carry a command_length field and it is less than 16.
DeclaresShort(data) ==
    /\ Len(data) >= 4
    /\ unpack(data, 1).hi = 0
    /\ unpack(data, 1).lo < 16

\* C4: data whose command_length field is less than 16 are a frame error,
\* whatever their size and command id: not dispatched, nothing written, the
\* transport closed.
ShortLengthIsFrameError ==
    \A c \in Conns :
        (last[c] \in {"raised", "dispatched"} /\ DeclaresShort(req[c])) =>
            /\ last[c] = "raised"
            /\ wire[c] = << >>
            /\ transport[c] = "closed"

\* C5: a bind accepted on an unbound session puts it in the bound state of
\* its command: bind_transceiver is answered with bind_transceiver_resp,
\* status 0, and two sessions bound by different bind commands differ in
\* what the session records.
BindRecordsRole ==
    /\ \A c \in Conns :
           (Dispatched(c) /\ ReqCommand(c) = U32(0, 9) /\ ~boundBefore[c]) =>
               /\ bound[c]
               /\ OneFrame(c)
               /\ RespCommand(c) = U32(32768, 9)
               /\ RespStatus(c) = U32(0, 0)
    /\ \A c1, c2 \in Conns :
           (bound[c1] /\ bound[c2] /\ lastBind[c1] # lastBind[c2]) =>
               Session(c1) # Session(c2)

\* C6: parsing the encoding of a valid PDU never raises and gives back its
\* command_id, command_status, sequence_number and body.
RoundTrip ==
    /\ codec.pc # "raised"
    /\ codec.pc = "decoded" => codec.back = codec.pdu

\* C6 witness: a PDU with a body and a command id of four different bytes
\* has been encoded and parsed.
RoundTripWitness ==
    /\ codec.pc = "decoded"
    /\ Len(codec.pdu.body) = MaxCodecBody
    /\ codec.pdu.command_id = U32(258, 772)
    /\ codec.pdu.sequence_number = U32(32768, 4)

\* C7: a command id that is not a handled request is answered with
\* generic_nack, status 0x03, the request's sequence number, and the bound
\* flag and the transport are as they were.
UnknownCommandNacked ==
    \A c \in Conns :
        (Dispatched(c) /\ ReqCommand(c) \notin HandledIds) =>
            /\ OneFrame(c)
            /\ RespCommand(c) = U32(32768, 0)
            /\ RespStatus(c) = U32(0, 3)
            /\ RespSequence(c) = ReqSequence(c)
            /\ RespBody(c) = << >>
            /\ bound[c] = boundBefore[c]
            /\ transport[c] = "open"

\* C7 witness: deliver_sm answered on a bound session.
UnknownCommandNackedWitness ==
    \E c \in Conns :
        /\ Dispatched(c)
        /\ ReqCommand(c) = U32(0, 5)
        /\ boundBefore[c]
        /\ bound[c]
        /\ RespStatus(c) = U32(0, 3)

\* C8: an accepted bind is answered with its own response id (the request id
\* with the high bit set), status 0 and the body "smppserver" ended by a null
\* byte.
BindResponseMatches ==
    \A c \in Conns :
        (Dispatched(c) /\ ReqCommand(c) \in BindIds /\ verdict[c] = "stub") =>
            /\ OneFrame(c)
            /\ RespCommand(c) = U32(ReqCommand(c).hi + 32768, ReqCommand(c).lo)
            /\ RespStatus(c) = U32(0, 0)
            /\ RespBody(c) = ServerSystemId
            /\ NullTerminated(RespBody(c))

\* C8 witness: a bind_transmitter answered with bind_transmitter_resp.
BindResponseMatchesWitness ==
    \E c \in Conns :
        /\ Dispatched(c)
        /\ ReqCommand(c) = U32(0, 2)
        /\ RespCommand(c) = U32(32768, 2)

\* C9: a submit_sm on a session bound as transmitter or transceiver is
\* answered with submit_sm_resp, status 0, the request's sequence number and
\* a null-terminated message id, and leaves the session bound and the
\* transport open.
SubmitAccepted ==
    \A c \in Conns :
        ( /\ Dispatched(c)
          /\ ReqCommand(c) = U32(0, 4)
          /\ boundBefore[c]
          /\ lastBind[c] \in { U32(0, 2), U32(0, 9) } ) =>
            /\ OneFrame(c)
            /\ RespCommand(c) = U32(32768, 4)
            /\ RespStatus(c) = U32(0, 0)
            /\ RespSequence(c) = ReqSequence(c)
            /\ NullTerminated(RespBody(c))
            /\ bound[c]
            /\ transport[c] = "open"

\* C9 witness: MaxSubmits submit_sm accepted after one bind_transmitter.
SubmitAcceptedWitness ==
    \E c \in Conns :
        /\ Dispatched(c)
        /\ ReqCommand(c) = U32(0, 4)
        /\ lastBind[c] = U32(0, 2)
        /\ submits[c] = MaxSubmits
        /\ MaxSubmits >= 2
        /\ RespCommand(c) = U32(32768, 4)

\* C10: a bind the credential check refuses on an unbound session is
\* answered with generic_nack, status 0x0D, and leaves the session unbound
\* and the transport open.
BindRefused ==
    \A c \in Conns :
        ( /\ Dispatched(c)
          /\ ReqCommand(c) \in BindIds
          /\ verdict[c] = "reject"
          /\ ~boundBefore[c] ) =>
            /\ OneFrame(c)
            /\ RespCommand(c) = U32(32768, 0)
            /\ RespStatus(c) = U32(0, 13)
            /\ RespSequence(c) = ReqSequence(c)
            /\ ~bound[c]
            /\ transport[c] = "open"

\* C10 witness: after a bind refused on the unbound session, a later bind on
\* the same connection has been accepted.
BindRefusedWitness ==
    \E c \in Conns :
        /\ rejected[c]
        /\ Dispatched(c)
        /\ ReqCommand(c) \in BindIds
        /\ verdict[c] = "stub"
        /\ ~boundBefore[c]
        /\ bound[c]

\* C11: a bind received on a session that is already bound is refused: the
\* answer is not a bind response and the bound flag stays as it was.
RebindRefused ==
    \A c \in Conns :
        (Dispatched(c) /\ ReqCommand(c) \in BindIds /\ boundBefore[c]) =>
            /\ OneFrame(c)
            /\ RespCommand(c) \notin { U32(32768, 1), U32(32768, 2), U32(32768, 9) }
            /\ RespStatus(c) # U32(0, 0)
            /\ bound[c] = boundBefore[c]
            /\ ~rebound[c]

\* C12: a submit_sm on a session whose only accepted bind was bind_receiver
\* is answered with generic_nack, status 0x0B.
ReceiverCannotSubmit ==
    \A c \in Conns :
        ( /\ Dispatched(c)
          /\ ReqCommand(c) = U32(0, 4)
          /\ lastBind[c] = U32(0, 1)
          /\ ~rebound[c] ) =>
            /\ OneFrame(c)
            /\ RespCommand(c) = U32(32768, 0)
            /\ RespStatus(c) = U32(0, 11)

\* What the model holds of one connection: the session and its transport.
ConnState(c) ==
    << bound[c], system_id[c], sequence_number[c], transport[c], lost[c],
       wire[c], req[c], last[c] >>

\* C13: a step that is a callback of one connection (a bind, an unbind, a
\* refused command, a fatal error, a loss) leaves every other connection's
\* session, transport and written bytes as they were.
SessionsIsolated ==
    [][\A c1, c2 \in Conns :
          (c1 # c2 /\ ConnState(c1)' # ConnState(c1)) =>
              ConnState(c2)' = ConnState(c2)]_vars

\* C13 witness: one connection closed by a fatal error while the other,
\* bound before, is still bound and open.
SessionsIsolatedWitness ==
    \E c1, c2 \in Conns :
        /\ c1 # c2
        /\ last[c1] = "raised"
        /\ transport[c1] = "closed"
        /\ Dispatched(c2)
        /\ bound[c2]
        /\ transport[c2] = "open"

\* The data are exactly two whole frames, the first not an unbind.
TwoFrames(data) ==
    /\ Len(data) >= 32
    /\ unpack(data, 1) = FromNat(16)
    /\ unpack(data, 5) # U32(0, 6)
    /\ unpack(data, 17) = FromNat(Len(data) - 16)

\* C14: when one delivery carries two whole frames, both are dispatched and
\* answered: two responses, carrying the two sequence numbers in order.
EveryFrameAnswered ==
    \A c \in Conns :
        (last[c] \in {"raised", "dispatched"} /\ TwoFrames(req[c])) =>
            /\ Len(wire[c]) = 2
            /\ SubSeq(wire[c][1], 13, 16) = SubSeq(req[c], 13, 16)
            /\ SubSeq(wire[c][2], 13, 16) = SubSeq(req[c], 29, 32)

\* The data, taken from the start of a frame, are not yet a whole frame.
Incomplete(data) ==
    \/ Len(data) < 4
    \/ /\ ~(unpack(data, 1).hi = 0 /\ unpack(data, 1).lo < 16)
       /\ ( unpack(data, 1).hi > 0 \/ Len(data) < unpack(data, 1).lo )

\* C15: the first delivery of a connection, when it is not yet a whole
\* frame, is not dispatched, writes nothing and leaves the transport open.
IncompleteFrameWaits ==
    [][\A c \in Conns :
          ( /\ last[c] = "made"
            /\ last'[c] \in {"raised", "dispatched"}
            /\ Incomplete(req'[c]) ) =>
              /\ wire'[c] = << >>
              /\ transport'[c] = "open"
              /\ bound'[c] = bound[c]]_vars

\* C16: the frames written to a connection's transport are, one for one and
\* in the same order, the responses to the requests dispatched on it: the
\* i-th byte string written is one whole frame with the sequence number of
\* the i-th dispatched request.
ResponsesInOrder ==
    \A c \in Conns :
        /\ Len(written[c]) = Len(asked[c])
        /\ \A i \in 1..Len(asked[c]) :
               /\ Len(written[c][i]) >= 16
               /\ unpack(written[c][i], 1) = FromNat(Len(written[c][i]))
               /\ SubSeq(written[c][i], 13, 16) = SubSeq(asked[c][i], 13, 16)

\* C16 witness: MaxLog requests answered, the first two with different
\* sequence numbers, the second an accepted submit_sm.
ResponsesInOrderWitness ==
    \E c \in Conns :
        /\ Len(asked[c]) = MaxLog
        /\ Len(written[c]) = MaxLog
        /\ MaxLog >= 2
        /\ unpack(asked[c][1], 13) # unpack(asked[c][2], 13)
        /\ unpack(written[c][2], 5) = U32(32768, 4)

\* C17: a session starts unbound, and whenever its transport is closed (by
\* unbind, by an error or by the loss of the connection) it is not bound.
ClosedIsUnbound ==
    \A c \in Conns :
        /\ transport[c] = "none" => ~bound[c]
        /\ transport[c] = "closed" => ~bound[c]

\* C18: the bound flag changes only in a data_received call that
\* dispatches: it is set only by an accepted bind and cleared only by an
\* unbind; every other callback leaves it as it was.
BoundFrame ==
    [][\A c \in Conns :
          bound'[c] # bound[c] =>
              /\ last'[c] = "dispatched"
              /\ bound'[c] => (ReqCommand(c)' \in BindIds /\ verdict'[c] = "stub")
              /\ ~bound'[c] => ReqCommand(c)' = U32(0, 6)]_vars

\* C18 witness: a bind refused on a bound session, which is still bound.
BoundFrameWitness ==
    \E c \in Conns :
        /\ Dispatched(c)
        /\ ReqCommand(c) \in BindIds
        /\ verdict[c] = "reject"
        /\ boundBefore[c]
        /\ bound[c]

\* C19: a delivery of 16 bytes or more is dispatched and writes exactly one
\* frame; a shorter one writes nothing and closes the transport; a
\* dispatching call closes the transport exactly when the request is unbind.
OneResponsePerDelivery ==
    \A c \in Conns :
        last[c] \in {"raised", "dispatched"} =>
            IF Len(req[c]) >= 16
            THEN /\ Dispatched(c)
                 /\ OneFrame(c)
                 /\ transport[c] = "closed" <=> ReqCommand(c) = U32(0, 6)
            ELSE /\ last[c] = "raised"
                 /\ wire[c] = << >>
                 /\ transport[c] = "closed"

\* C19 witness: a delivery of two whole frames answered with one frame.
OneResponsePerDeliveryWitness ==
    \E c \in Conns :
        /\ Dispatched(c)
        /\ TwoFrames(req[c])
        /\ Len(wire[c]) = 1
        /\ transport[c] = "open"

\* C20: an unbind on a session on which no bind was accepted is answered
\* with unbind_resp, status 0, the request's sequence number, and the
\* transport is closed.
UnbindWhenUnbound ==
    \A c \in Conns :
        (Dispatched(c) /\ ReqCommand(c) = U32(0, 6) /\ lastBind[c] = NoBind) =>
            /\ OneFrame(c)
            /\ RespCommand(c) = U32(32768, 6)
            /\ RespStatus(c) = U32(0, 0)
            /\ RespSequence(c) = ReqSequence(c)
            /\ RespBody(c) = << >>
            /\ ~bound[c]
            /\ transport[c] = "closed"

\* C20 witness: such an unbind, with sequence number 0xFFFFFFFF, answered.
UnbindWhenUnboundWitness ==
    \E c \in Conns :
        /\ Dispatched(c)
        /\ ReqCommand(c) = U32(0, 6)
        /\ lastBind[c] = NoBind
        /\ ~boundBefore[c]
        /\ ReqSequence(c) = U32(65535, 65535)
        /\ RespCommand(c) = U32(32768, 6)
        /\ transport[c] = "closed"

==========================================================================
